---- MODULE Spec2Model ----
(***************************************************************************)
(* A model of oriondean/mcp-pdf: the document analyzer and page selector   *)
(* (src/utils/documentAnalyzer.ts), the page renderer                       *)
(* (src/utils/pdfRenderer.ts) and the request handler                      *)
(* handleFetchAndParsePDF (src/tools/pdfTool.ts).                          *)
(*                                                                         *)
(* Numbers.  JavaScript numbers are doubles.  Every quotient the code      *)
(* compares (average text density, visual page ratio) is a quotient of two *)
(* small non-negative integers, and IEEE division is correctly rounded and *)
(* monotone, so each comparison of such a quotient with 500, 250, 0.5 or   *)
(* 0.2 has the truth value of the same comparison of exact rationals for   *)
(* every page count below 10^13.  The model keeps a quotient as the pair   *)
(* [num, den] and compares by cross-multiplication.                        *)
(***************************************************************************)
EXTENDS Integers, Sequences, FiniteSets, TLC

VARIABLES
    doc,            \* the PDF: one page signal per page, page p at index p
    input,          \* the validated request: [mode, maxPages, pages]
    analysis,       \* DocumentAnalysis returned by analyzeDocument, or NoAnalysis
    chosenPages,  \* pagesToRender of handleHybridMode: input.pages or the selector's result
    actualMode,     \* the mode handleFetchAndParsePDF dispatches on
    options,        \* RenderOptions handed to renderPDFToImages
    pagesToRender,  \* pagesToRender of renderPDFToImages: the resolved page list
    batchStart,     \* loop variable i of the batch loop (0-based offset into pagesToRender)
    inFlight,       \* indices (1-based, within the batch) of the page renders under way
    batchImages,    \* result slots of the Promise.all under way, one per page of the batch
    images,         \* the images pushed so far / returned
    completedOutOfOrder, \* history: some page completed before an earlier page of its batch
    response,       \* the formatted report, or NoResponse
    error,          \* the step whose failure ended the request, or "none"
    timerArmed,     \* the setTimeout of fetchPDFFromURL is pending
    fetchOptions,   \* fetchPDFFromURL on its own: [urlValid, maxSizeBytes]
    httpResponse,   \* fetchPDFFromURL on its own: the response received, or NoHttpResponse
    pdfBuffer,      \* fetchPDFFromURL on its own: <<byte length>> of the buffer returned, or <<>>
    toolCall,       \* the call_tool handler on its own: the arguments as received
    pc              \* control point of the operation under way

renderVars == <<actualMode, options, pagesToRender, batchStart, inFlight, batchImages, images, completedOutOfOrder, response, error>>

envVars == <<fetchOptions, httpResponse, pdfBuffer, toolCall>>

vars == <<doc, input, analysis, chosenPages, actualMode, options, pagesToRender, batchStart, inFlight, batchImages, images, completedOutOfOrder, response, error, timerArmed, fetchOptions, httpResponse, pdfBuffer, toolCall, pc>>

----------------------------------------------------------------------------
(* Bounds of the model.                                                    *)

\* Largest page count of a document handed to the analyzer on its own.
MaxAnalyzedPages == 5

\* The page selector on its own: documents of MaxVisualPage pages with any
\* set of visual pages, documents whose every stride-th page is visual (up to
\* MaxSpacedCount visual pages, stride up to MaxStride), and maxPages up to
\* MaxSelectorPages.
MaxVisualPage == 7
MaxSpacedCount == 10
MaxStride == 2
MaxSelectorPages == 6

\* Requests: documents of up to MaxPageCount pages and explicit page lists of
\* up to MaxExplicitPages entries.
MaxPageCount == 11
MaxExplicitPages == 2

\* Per-page text lengths the extractor may report: below, at and above half
\* the text density threshold, and twice the threshold.
TextLengths == {0, 250, 1000}

----------------------------------------------------------------------------
(* Generic helpers.                                                        *)

Min(a, b) == IF a <= b THEN a ELSE b

\* A quotient num/den with den > 0.
Quot(n, d) == [num |-> n, den |-> d]

\* q > n/d, q < n/d and q >= n/d for quotients with positive denominators.
QuotGT(q, n, d) == q.num * d > n * q.den
QuotLT(q, n, d) == q.num * d < n * q.den
QuotGE(q, n, d) == q.num * d >= n * q.den

\* An optional page list: options.pages / input.pages absent (undefined) or given.
NoPages == [given |-> FALSE, list |-> <<>>]
Pages(list) == [given |-> TRUE, list |-> list]

\* The request slot of a run that handles no request.
NoInput == [mode |-> "none", dpi |-> 0, maxPages |-> 0, pages |-> NoPages]

NoOptions == [maxPages |-> 0, pages |-> NoPages]

NoResponse == [header |-> "none", pages |-> 0, renderedPages |-> <<>>, sections |-> <<>>]

\* The state of the request handler and the renderer while neither runs.
RenderIdle ==
    /\ actualMode = "none"
    /\ options = NoOptions
    /\ pagesToRender = <<>>
    /\ batchStart = 0
    /\ inFlight = {}
    /\ batchImages = <<>>
    /\ images = <<>>
    /\ completedOutOfOrder = FALSE
    /\ response = NoResponse
    /\ error = "none"

NoFetchOptions == [urlValid |-> TRUE, maxSizeBytes |-> <<>>]

NoHttpResponse == [ok |-> FALSE, contentLength |-> [kind |-> "absent", n |-> 0], byteLength |-> <<>>]

NoToolCall == [name |-> "none", url |-> "none", mode |-> <<>>, dpi |-> <<>>, maxPages |-> <<>>, pages |-> NoPages]

\* The state of fetchPDFFromURL and of the call_tool handler while neither runs.
EnvIdle ==
    /\ timerArmed = FALSE
    /\ fetchOptions = NoFetchOptions
    /\ httpResponse = NoHttpResponse
    /\ pdfBuffer = <<>>
    /\ toolCall = NoToolCall

RECURSIVE SumTextLength(_)
SumTextLength(pages) ==
    IF pages = <<>> THEN 0
    ELSE pages[1].textLength + SumTextLength(Tail(pages))

----------------------------------------------------------------------------
(* src/utils/documentAnalyzer.ts                                           *)

DEFAULT_TEXT_DENSITY == 500

\* DEFAULT_VISUAL_THRESHOLD = 0.2, kept as the quotient 1/5.
DEFAULT_VISUAL_THRESHOLD == Quot(1, 5)

NoAnalysis == [hasVisuals |-> FALSE, visualPageNumbers |-> <<>>,
               textDensity |-> Quot(0, 1), recommendedMode |-> "none"]

PageSignals == [textLength : TextLengths, hasImages : BOOLEAN]

\* analyzePDFPages: the map page number -> {hasImages, textLength}, filled for
\* pageNum = 1..numPages in order; a sequence indexed by page number.
analyzePDFPages(pdf) == pdf

\* The test of the loop body: the page has images or very little text
\* (textLength < textDensityThreshold / 2).
IsVisualPage(sig, textDensityThreshold) ==
    sig.hasImages \/ 2 * sig.textLength < textDensityThreshold

\* A variant of VisualPagesFrom that pushes the 0-based index of the entry in
\* place of its key.
RECURSIVE VisualPagesFromZeroBased(_, _, _)
VisualPagesFromZeroBased(pageAnalysis, pageNum, textDensityThreshold) ==
    IF pageNum > Len(pageAnalysis) THEN <<>>
    ELSE IF IsVisualPage(pageAnalysis[pageNum], textDensityThreshold)
         THEN <<pageNum - 1>> \o VisualPagesFromZeroBased(pageAnalysis, pageNum + 1, textDensityThreshold)
         ELSE VisualPagesFromZeroBased(pageAnalysis, pageNum + 1, textDensityThreshold)

\* The loop over pageAnalysis.entries(): page numbers pushed in map order.
RECURSIVE VisualPagesFrom(_, _, _)
VisualPagesFrom(pageAnalysis, pageNum, textDensityThreshold) ==
    IF pageNum > Len(pageAnalysis) THEN <<>>
    ELSE IF IsVisualPage(pageAnalysis[pageNum], textDensityThreshold)
         THEN <<pageNum>> \o VisualPagesFrom(pageAnalysis, pageNum + 1, textDensityThreshold)
         ELSE VisualPagesFrom(pageAnalysis, pageNum + 1, textDensityThreshold)

\* Variants of RecommendedMode with one plausible slip each: the hybrid rule
\* tried before the images rule; the images rule without its low-density
\* disjunct; the hybrid rule with a strict comparison; 'auto' as the default;
\* the low-density test with <= in place of <.
RecommendedModeAutoDefault(hasVisuals, avgTextDensity, visualPageRatio, textDensityThreshold, visualThreshold) ==
    IF ~hasVisuals /\ QuotGT(avgTextDensity, textDensityThreshold, 1) THEN "text"
    ELSE IF QuotGT(visualPageRatio, 1, 2) \/ QuotLT(avgTextDensity, textDensityThreshold, 2)
         THEN "images"
    ELSE IF hasVisuals /\ QuotGE(visualPageRatio, visualThreshold.num, visualThreshold.den)
         THEN "hybrid"
    ELSE "auto"

RecommendedModeLowDensityInclusive(hasVisuals, avgTextDensity, visualPageRatio, textDensityThreshold, visualThreshold) ==
    IF ~hasVisuals /\ QuotGT(avgTextDensity, textDensityThreshold, 1) THEN "text"
    ELSE IF QuotGT(visualPageRatio, 1, 2) \/ ~QuotGT(avgTextDensity, textDensityThreshold, 2)
         THEN "images"
    ELSE IF hasVisuals /\ QuotGE(visualPageRatio, visualThreshold.num, visualThreshold.den)
         THEN "hybrid"
    ELSE "text"

RecommendedModeHybridFirst(hasVisuals, avgTextDensity, visualPageRatio, textDensityThreshold, visualThreshold) ==
    IF ~hasVisuals /\ QuotGT(avgTextDensity, textDensityThreshold, 1) THEN "text"
    ELSE IF hasVisuals /\ QuotGE(visualPageRatio, visualThreshold.num, visualThreshold.den)
         THEN "hybrid"
    ELSE IF QuotGT(visualPageRatio, 1, 2) \/ QuotLT(avgTextDensity, textDensityThreshold, 2)
         THEN "images"
    ELSE "text"

RecommendedModeRatioOnly(hasVisuals, avgTextDensity, visualPageRatio, textDensityThreshold, visualThreshold) ==
    IF ~hasVisuals /\ QuotGT(avgTextDensity, textDensityThreshold, 1) THEN "text"
    ELSE IF QuotGT(visualPageRatio, 1, 2) THEN "images"
    ELSE IF hasVisuals /\ QuotGE(visualPageRatio, visualThreshold.num, visualThreshold.den)
         THEN "hybrid"
    ELSE "text"

RecommendedModeStrictHybrid(hasVisuals, avgTextDensity, visualPageRatio, textDensityThreshold, visualThreshold) ==
    IF ~hasVisuals /\ QuotGT(avgTextDensity, textDensityThreshold, 1) THEN "text"
    ELSE IF QuotGT(visualPageRatio, 1, 2) \/ QuotLT(avgTextDensity, textDensityThreshold, 2)
         THEN "images"
    ELSE IF hasVisuals /\ QuotGT(visualPageRatio, visualThreshold.num, visualThreshold.den)
         THEN "hybrid"
    ELSE "text"

\* The if / else-if chain that determines recommendedMode, first match wins.
RecommendedMode(hasVisuals, avgTextDensity, visualPageRatio, textDensityThreshold, visualThreshold) ==
    IF ~hasVisuals /\ QuotGT(avgTextDensity, textDensityThreshold, 1) THEN "text"
    ELSE IF QuotGT(visualPageRatio, 1, 2) \/ QuotLT(avgTextDensity, textDensityThreshold, 2)
         THEN "images"
    ELSE IF hasVisuals /\ QuotGE(visualPageRatio, visualThreshold.num, visualThreshold.den)
         THEN "hybrid"
    ELSE "text"

analyzeDocument(pdf, textDensityThreshold, visualThreshold) ==
    LET pageAnalysis == analyzePDFPages(pdf)
        totalPages == Len(pageAnalysis)
        totalTextLength == SumTextLength(pageAnalysis)
        visualPages == VisualPagesFrom(pageAnalysis, 1, textDensityThreshold)
        avgTextDensity == IF totalPages > 0 THEN Quot(totalTextLength, totalPages)
                          ELSE Quot(0, 1)
        visualPageRatio == IF totalPages > 0 THEN Quot(Len(visualPages), totalPages)
                           ELSE Quot(0, 1)
        hasVisuals == Len(visualPages) > 0
    IN  [hasVisuals |-> hasVisuals,
         visualPageNumbers |-> visualPages,
         textDensity |-> avgTextDensity,
         recommendedMode |-> RecommendedMode(hasVisuals, avgTextDensity, visualPageRatio,
                                             textDensityThreshold, visualThreshold)]

\* Math.ceil of a quotient whose divisor is 0 and dividend positive: the value
\* Infinity of the JavaScript numbers, kept as a number that is no index.
Infinity == -1

\* i < n and i + step for an index that may be Infinity.
LessThan(i, n) == i # Infinity /\ i < n
Plus(i, step) == IF i = Infinity \/ step = Infinity THEN Infinity ELSE i + step

\* Math.ceil(a / b) for a > 0 and b >= 0.
CeilDivFloor(a, b) == IF b = 0 THEN Infinity ELSE a \div b

CeilDiv(a, b) == IF b = 0 THEN Infinity ELSE (a + b - 1) \div b

\* selectedPages.sort((a, b) => a - b): ascending numeric order.
RECURSIVE InsertAscending(_, _)
InsertAscending(sorted, x) ==
    IF sorted = <<>> THEN <<x>>
    ELSE IF x < sorted[1] THEN <<x>> \o sorted
    ELSE <<sorted[1]>> \o InsertAscending(Tail(sorted), x)

RECURSIVE SortAscending(_)
SortAscending(list) ==
    IF list = <<>> THEN <<>>
    ELSE InsertAscending(SortAscending(SubSeq(list, 1, Len(list) - 1)), list[Len(list)])

\* The for loop of selectPagesToRender: i is the 0-based index into
\* visualPageNumbers.
RECURSIVE SelectLoop(_, _, _, _, _)
SelectLoop(visualPageNumbers, selectedPages, i, step, maxPages) ==
    IF LessThan(i, Len(visualPageNumbers)) /\ Len(selectedPages) < maxPages
    THEN SelectLoop(visualPageNumbers, Append(selectedPages, visualPageNumbers[i + 1]),
                    Plus(i, step), step, maxPages)
    ELSE selectedPages

\* A variant of SampleVisualPages whose loop starts at index 0 instead of step.
SampleVisualPagesFromZero(visualPageNumbers, maxPages) ==
    LET step == CeilDiv(Len(visualPageNumbers) - 1, maxPages - 1)
    IN  SortAscending(SelectLoop(visualPageNumbers, <<visualPageNumbers[1]>>, 0, step, maxPages))

\* A variant of SampleVisualPages whose list starts empty instead of holding
\* the first visual page.
SampleVisualPagesWithoutFirst(visualPageNumbers, maxPages) ==
    LET step == CeilDiv(Len(visualPageNumbers) - 1, maxPages - 1)
    IN  SortAscending(SelectLoop(visualPageNumbers, <<>>, step, step, maxPages))

\* The down-sampling branch: the first visual page, then every step-th one.
SampleVisualPages(visualPageNumbers, maxPages) ==
    LET step == CeilDiv(Len(visualPageNumbers) - 1, maxPages - 1)
    IN  SortAscending(SelectLoop(visualPageNumbers, <<visualPageNumbers[1]>>, step, step, maxPages))

selectPagesToRender(a, maxPages) ==
    IF Len(a.visualPageNumbers) = 0 THEN <<1>>
    ELSE IF Len(a.visualPageNumbers) <= maxPages THEN a.visualPageNumbers
    ELSE SampleVisualPages(a.visualPageNumbers, maxPages)


----------------------------------------------------------------------------
(* src/utils/pdfRenderer.ts                                                *)

\* const batchSize = 5
batchSize == 5

\* A PDFImagePage (its pixels left out), and a result slot not yet settled.
PageImage(pageNum) == [pageNumber |-> pageNum]
Pending == [pageNumber |-> 0]

RECURSIVE FilterInRange(_, _)
FilterInRange(list, numPages) ==
    IF list = <<>> THEN <<>>
    ELSE IF list[1] >= 1 /\ list[1] <= numPages
         THEN <<list[1]>> \o FilterInRange(Tail(list), numPages)
         ELSE FilterInRange(Tail(list), numPages)

\* list.slice(0, n) for n >= 0.
Slice(list, n) == SubSeq(list, 1, Min(Len(list), n))

\* Variants of PagesToRender: the explicit list cut to maxPages before it is
\* filtered; the explicit list not filtered at all.
PagesToRenderSliceFirst(numPages, opts) ==
    IF opts.pages.given /\ Len(opts.pages.list) > 0
    THEN FilterInRange(Slice(opts.pages.list, opts.maxPages), numPages)
    ELSE [k \in 1..Min(numPages, opts.maxPages) |-> k]

PagesToRenderUnfiltered(numPages, opts) ==
    IF opts.pages.given /\ Len(opts.pages.list) > 0
    THEN Slice(opts.pages.list, opts.maxPages)
    ELSE [k \in 1..Min(numPages, opts.maxPages) |-> k]

\* A variant of PagesToRender that takes an empty explicit list as provided.
PagesToRenderEmptyAsGiven(numPages, opts) ==
    IF opts.pages.given
    THEN Slice(FilterInRange(opts.pages.list, numPages), opts.maxPages)
    ELSE [k \in 1..Min(numPages, opts.maxPages) |-> k]

\* "Determine which pages to render".
PagesToRender(numPages, opts) ==
    IF opts.pages.given /\ Len(opts.pages.list) > 0
    THEN Slice(FilterInRange(opts.pages.list, numPages), opts.maxPages)
    ELSE [k \in 1..Min(numPages, opts.maxPages) |-> k]

\* pagesToRender.slice(i, i + batchSize) for the 0-based offset i.
Batch(list, offset) == SubSeq(list, offset + 1, Min(Len(list), offset + batchSize))

\* A variant of StoreResult that fills the slots in completion order.
StoreResultInCompletionOrder(slots, j, image) ==
    LET free == CHOOSE k \in 1..Len(slots) :
                    /\ slots[k] = Pending
                    /\ \A l \in 1..(k - 1) : slots[l] # Pending
    IN  [slots EXCEPT ![free] = image]

\* Promise.all: the value of the j-th promise becomes the j-th entry of the result.
StoreResult(slots, j, image) == [slots EXCEPT ![j] = image]

\* renderSpecificPages: the options it hands to renderPDFToImages.
renderSpecificPagesOptions(pageNumbers) ==
    [maxPages |-> Len(pageNumbers), pages |-> Pages(pageNumbers)]

----------------------------------------------------------------------------
(* The analyzer on its own: any document of up to MaxAnalyzedPages pages.  *)

AnalyzedDocs == UNION {[1..n -> PageSignals] : n \in 0..MaxAnalyzedPages}

InitAnalyze ==
    /\ doc \in AnalyzedDocs
    /\ input = NoInput
    /\ analysis = NoAnalysis
    /\ chosenPages = <<>>
    /\ RenderIdle
    /\ EnvIdle
    /\ pc = "analyze"

AnalyzeDocument ==
    /\ pc = "analyze"
    /\ analysis' = analyzeDocument(doc, DEFAULT_TEXT_DENSITY, DEFAULT_VISUAL_THRESHOLD)
    /\ pc' = "analyzed"
    /\ UNCHANGED <<envVars, timerArmed, doc, input, chosenPages, renderVars>>

NextAnalyze == AnalyzeDocument

SpecAnalyze == InitAnalyze /\ [][NextAnalyze]_vars

----------------------------------------------------------------------------
(* Claims about analyzeDocument, checked under SpecAnalyze.                *)

\* The visual pages of a document as section 4.1 of the specification
\* defines them, for the default threshold: hasImages, or textLength < 250.
SpecVisualSet(d) == {p \in 1..Len(d) : d[p].hasImages \/ d[p].textLength < 250}

\* C1 as stated: a document with zero pages is analyzed to textDensity = 0,
\* hasVisuals = false and recommendedMode = text.
C1_Original ==
    (pc = "analyzed" /\ Len(doc) = 0) =>
        /\ analysis.textDensity.num = 0
        /\ analysis.hasVisuals = FALSE
        /\ analysis.recommendedMode = "text"

\* C1 as amended: a document with zero pages is analyzed to textDensity = 0,
\* hasVisuals = false and recommendedMode = images (the low-density rule,
\* 0 < 250, matches before the default).
C1_ZeroPages ==
    (pc = "analyzed" /\ Len(doc) = 0) =>
        /\ analysis.textDensity.num = 0
        /\ analysis.hasVisuals = FALSE
        /\ analysis.visualPageNumbers = <<>>
        /\ analysis.recommendedMode = "images"

C1_Witness == pc = "analyzed" /\ Len(doc) = 0 /\ analysis.recommendedMode = "images"

\* The precondition of C2: at least one visual page, and
\* 0.2 <= visual pages / page count < 0.5.
C2_Case ==
    /\ pc = "analyzed"
    /\ Len(doc) > 0
    /\ Cardinality(SpecVisualSet(doc)) >= 1
    /\ 5 * Cardinality(SpecVisualSet(doc)) >= Len(doc)
    /\ 2 * Cardinality(SpecVisualSet(doc)) < Len(doc)

\* C2 as stated: with at least one visual page and a visual ratio in
\* [0.2, 0.5) the recommended mode is hybrid, whatever the text lengths are.
C2_Original == C2_Case => analysis.recommendedMode = "hybrid"

\* C2 as amended: with at least one visual page and a visual ratio in
\* [0.2, 0.5) the recommended mode is hybrid when the average text density
\* is at least 250 (half the threshold), and images when it is below 250.
C2_HybridBand ==
    C2_Case =>
        /\ SumTextLength(doc) >= 250 * Len(doc) => analysis.recommendedMode = "hybrid"
        /\ SumTextLength(doc) < 250 * Len(doc) => analysis.recommendedMode = "images"

\* A document whose visual ratio is exactly 0.2 and that is recommended hybrid.
C2_Witness ==
    /\ C2_Case
    /\ 5 * Cardinality(SpecVisualSet(doc)) = Len(doc)
    /\ analysis.recommendedMode = "hybrid"

\* C3: a visual ratio strictly above 0.5 gives recommendedMode = images,
\* whatever the text density is.
C3_MajorityVisual ==
    (pc = "analyzed" /\ 2 * Cardinality(SpecVisualSet(doc)) > Len(doc)) =>
        analysis.recommendedMode = "images"

\* A majority-visual document of high text density (above the threshold 500)
\* that is recommended images.
C3_Witness ==
    /\ pc = "analyzed"
    /\ 2 * Cardinality(SpecVisualSet(doc)) > Len(doc)
    /\ SumTextLength(doc) > 500 * Len(doc)
    /\ analysis.recommendedMode = "images"

----------------------------------------------------------------------------
(* The page selector on its own, applied to the analysis of a document.    *)

\* A document of n text-heavy pages of which exactly the pages of V hold images.
DocWithVisualPages(n, V) == [p \in 1..n |-> [textLength |-> 1000, hasImages |-> p \in V]]

SelectorDocs ==
    {DocWithVisualPages(MaxVisualPage, V) : V \in SUBSET (1..MaxVisualPage)}
    \cup {DocWithVisualPages(c * stride, {stride * i : i \in 1..c}) :
              c \in 0..MaxSpacedCount, stride \in 1..MaxStride}

InitSelect ==
    /\ doc \in SelectorDocs
    /\ \E m \in 1..MaxSelectorPages :
           input = [mode |-> "hybrid", dpi |-> 150, maxPages |-> m, pages |-> NoPages]
    /\ analysis = analyzeDocument(doc, DEFAULT_TEXT_DENSITY, DEFAULT_VISUAL_THRESHOLD)
    /\ chosenPages = <<>>
    /\ RenderIdle
    /\ EnvIdle
    /\ pc = "select"

SelectPagesToRender ==
    /\ pc = "select"
    /\ chosenPages' = selectPagesToRender(analysis, input.maxPages)
    /\ pc' = "selected"
    /\ UNCHANGED <<envVars, timerArmed, doc, input, analysis, renderVars>>

NextSelect == SelectPagesToRender

SpecSelect == InitSelect /\ [][NextSelect]_vars

----------------------------------------------------------------------------
(* Claims about selectPagesToRender, checked under SpecSelect.             *)

StrictlyAscending(list) ==
    \A i \in 1..Len(list) : \A j \in 1..Len(list) : i < j => list[i] < list[j]

\* C4: for strictly ascending visualPageNumbers and a positive integer
\* maxPages the selection has at most maxPages entries and is strictly
\* ascending (hence without duplicates).
C4_SelectionBounded ==
    (pc = "selected" /\ StrictlyAscending(analysis.visualPageNumbers)) =>
        /\ Len(chosenPages) <= input.maxPages
        /\ StrictlyAscending(chosenPages)

\* A down-sampled selection that fills all of maxPages >= 3 entries.
C4_Witness ==
    /\ pc = "selected"
    /\ StrictlyAscending(analysis.visualPageNumbers)
    /\ Len(analysis.visualPageNumbers) > input.maxPages
    /\ input.maxPages >= 3
    /\ Len(chosenPages) = input.maxPages

\* The reference of C5.  step = ceil((count - 1) / (maxPages - 1)) is the
\* least s with s * (maxPages - 1) >= count - 1; the entries are those at the
\* 0-based indices 0, step, 2 * step, ... below count, at most maxPages of them.
RefStep(count, maxPages) ==
    CHOOSE s \in 1..count :
        /\ s * (maxPages - 1) >= count - 1
        /\ (s - 1) * (maxPages - 1) < count - 1

RefSelection(visual, maxPages) ==
    IF visual = <<>> THEN <<1>>
    ELSE IF Len(visual) <= maxPages THEN visual
    ELSE LET step == RefStep(Len(visual), maxPages)
             taken == Cardinality({k \in 0..(maxPages - 1) : k * step < Len(visual)})
         IN  [k \in 1..taken |-> visual[(k - 1) * step + 1]]

\* C5: for maxPages >= 2 the selection is the reference: [1] without visual
\* pages, all visual pages when they are at most maxPages, otherwise the
\* visual pages at indices 0, step, 2 * step, ... cut off at the list end or
\* at maxPages entries, in ascending order; visual pages [2, 4, ..., 20] with
\* maxPages = 5 give [2, 8, 14, 20].
C5_SelectionReference ==
    (pc = "selected" /\ input.maxPages >= 2) =>
        /\ chosenPages = RefSelection(analysis.visualPageNumbers, input.maxPages)
        /\ StrictlyAscending(chosenPages)
        /\ (/\ analysis.visualPageNumbers = <<2, 4, 6, 8, 10, 12, 14, 16, 18, 20>>
            /\ input.maxPages = 5) => chosenPages = <<2, 8, 14, 20>>

C5_Witness ==
    /\ pc = "selected"
    /\ analysis.visualPageNumbers = <<2, 4, 6, 8, 10, 12, 14, 16, 18, 20>>
    /\ input.maxPages = 5
    /\ chosenPages = <<2, 8, 14, 20>>

----------------------------------------------------------------------------
(* src/tools/pdfTool.ts: handleFetchAndParsePDF and the three mode         *)
(* handlers, with renderPDFToImages stepped page by page.                  *)

\* A page number no document of the model has (the tests use 999).
OutOfRangePage == 999

Modes == {"text", "images", "hybrid", "auto"}
MaxPagesValues == {1, 2, 10, 11, 50, 100}
PageNumbers == {1, 2, OutOfRangePage}

ExplicitPages ==
    {NoPages} \cup {Pages(list) : list \in UNION {[1..n -> PageNumbers] : n \in 0..MaxExplicitPages}}

\* FetchAndParsePDFSchema: the requests that pass validation.
Requests == [mode : Modes, dpi : {150}, maxPages : MaxPagesValues, pages : ExplicitPages]

\* Documents of n text-heavy pages whose last k pages hold images.
RequestDocs ==
    UNION {{DocWithVisualPages(n, (n - k + 1)..n) : k \in 0..n} : n \in 0..MaxPageCount}

\* Math.min(10, input.maxPages) of handleHybridMode, and a variant without the 10.
HybridPageCapUncapped(maxPages) == maxPages

HybridPageCap(maxPages) == Min(10, maxPages)

\* The report of each mode: its "# PDF Content (<Mode> Mode)" header, its
\* "**Pages:**" line (0 when the mode has none), its "**Rendered Pages:**" line
\* (a sequence of zero or one number) and its "Page N" sections.
TextResponse(numPages) ==
    [header |-> "Text Mode", pages |-> numPages, renderedPages |-> <<>>, sections |-> <<>>]

ImagesResponse(imgs) ==
    [header |-> "Images Mode", pages |-> 0, renderedPages |-> <<Len(imgs)>>,
     sections |-> [k \in 1..Len(imgs) |-> imgs[k].pageNumber]]

HybridResponse(numPages, imgs) ==
    [header |-> "Hybrid Mode", pages |-> numPages, renderedPages |-> <<Len(imgs)>>,
     sections |-> [k \in 1..Len(imgs) |-> imgs[k].pageNumber]]

Init ==
    /\ doc \in RequestDocs
    /\ input \in Requests
    /\ analysis = NoAnalysis
    /\ chosenPages = <<>>
    /\ RenderIdle
    /\ EnvIdle
    /\ pc = "fetch"

\* A variant of Fail that reports the pages rendered before the failure.
FailKeepsPartial(step) ==
    /\ pc' = "failed"
    /\ error' = step
    /\ options' = NoOptions
    /\ pagesToRender' = <<>>
    /\ batchStart' = 0
    /\ inFlight' = {}
    /\ batchImages' = <<>>
    /\ images' = <<>>
    /\ completedOutOfOrder' = FALSE
    /\ response' = ImagesResponse(images)
    /\ UNCHANGED <<envVars, doc, input, analysis, chosenPages, actualMode>>

\* An error thrown at `step` propagates through every catch to the caller:
\* the locals of the handlers are gone and no report is returned.
Fail(step) ==
    /\ pc' = "failed"
    /\ error' = step
    /\ options' = NoOptions
    /\ pagesToRender' = <<>>
    /\ batchStart' = 0
    /\ inFlight' = {}
    /\ batchImages' = <<>>
    /\ images' = <<>>
    /\ completedOutOfOrder' = FALSE
    /\ response' = NoResponse
    /\ UNCHANGED <<envVars, doc, input, analysis, chosenPages, actualMode>>

\* finally { clearTimeout(timeoutId) }, and a variant without it.
ClearTimeoutMissing(armed) == armed

ClearTimeout(armed) == FALSE

\* fetchPDFFromURL throws "Invalid URL" before it sets its timer.
InvalidURL ==
    /\ pc = "fetch"
    /\ Fail("url")
    /\ UNCHANGED timerArmed

\* fetchPDFFromURL: setTimeout(() => controller.abort(), timeout), then fetch
StartFetch ==
    /\ pc = "fetch"
    /\ timerArmed' = TRUE
    /\ pc' = "fetching"
    /\ UNCHANGED <<envVars, doc, input, analysis, chosenPages, renderVars>>

\* await fetchPDFFromURL(input.url) returns the buffer
FetchPDF ==
    /\ pc = "fetching"
    /\ timerArmed' = ClearTimeout(timerArmed)
    /\ pc' = "mode"
    /\ UNCHANGED <<envVars, doc, input, analysis, chosenPages, renderVars>>

\* fetchPDFFromURL throws: the network, the status or the size
FetchFails ==
    /\ pc = "fetching"
    /\ Fail("fetch")
    /\ timerArmed' = ClearTimeout(timerArmed)

\* The timer fires: controller.abort().  A fetch under way rejects with
\* AbortError and fetchPDFFromURL throws "Request timeout"; with no fetch
\* under way the abort has nothing to act on.
TimerFires ==
    /\ timerArmed
    /\ timerArmed' = FALSE
    /\ IF pc = "fetching"
       THEN Fail("timeout")
       ELSE UNCHANGED <<envVars, doc, input, analysis, chosenPages, renderVars, pc>>

\* let actualMode = input.mode; if (input.mode === 'auto') { ... }
ResolveMode ==
    /\ pc = "mode"
    /\ IF input.mode = "auto"
       THEN /\ analysis' = analyzeDocument(doc, DEFAULT_TEXT_DENSITY, DEFAULT_VISUAL_THRESHOLD)
            /\ actualMode' = analysis'.recommendedMode
       ELSE /\ actualMode' = input.mode
            /\ UNCHANGED analysis
    /\ pc' = "dispatch"
    /\ UNCHANGED <<envVars, timerArmed, doc, input, chosenPages, options, pagesToRender, batchStart, inFlight,
                   batchImages, images, completedOutOfOrder, response, error>>

AnalyzeFails ==
    /\ pc = "mode"
    /\ input.mode = "auto"
    /\ Fail("analyze")
    /\ UNCHANGED timerArmed

\* case 'text': handleTextMode
HandleTextMode ==
    /\ pc = "dispatch"
    /\ actualMode = "text"
    /\ response' = TextResponse(Len(doc))
    /\ pc' = "done"
    /\ UNCHANGED <<envVars, timerArmed, doc, input, analysis, chosenPages, actualMode, options, pagesToRender,
                   batchStart, inFlight, batchImages, images, completedOutOfOrder, error>>

ExtractFails ==
    /\ pc = "dispatch"
    /\ actualMode \in {"text", "hybrid"}
    /\ Fail("extract")
    /\ UNCHANGED timerArmed

\* handleHybridMode: analyzeDocument throws
HybridAnalyzeFails ==
    /\ pc = "dispatch"
    /\ actualMode = "hybrid"
    /\ Fail("analyze")
    /\ UNCHANGED timerArmed

\* case 'images': handleImagesMode calls renderPDFToImages
HandleImagesMode ==
    /\ pc = "dispatch"
    /\ actualMode = "images"
    /\ options' = [maxPages |-> input.maxPages, pages |-> input.pages]
    /\ pc' = "load"
    /\ UNCHANGED <<envVars, timerArmed, doc, input, analysis, chosenPages, actualMode, pagesToRender, batchStart,
                   inFlight, batchImages, images, completedOutOfOrder, response, error>>

\* case 'hybrid': handleHybridMode up to its call of renderSpecificPages
HandleHybridMode ==
    /\ pc = "dispatch"
    /\ actualMode = "hybrid"
    /\ analysis' = analyzeDocument(doc, DEFAULT_TEXT_DENSITY, DEFAULT_VISUAL_THRESHOLD)
    /\ chosenPages' = IF input.pages.given THEN input.pages.list
                      ELSE selectPagesToRender(analysis', HybridPageCap(input.maxPages))
    /\ IF Len(chosenPages') > 0
       THEN /\ options' = renderSpecificPagesOptions(chosenPages')
            /\ pc' = "load"
       ELSE /\ options' = options
            /\ pc' = "format"
    /\ UNCHANGED <<envVars, timerArmed, doc, input, actualMode, pagesToRender, batchStart, inFlight, batchImages,
                   images, completedOutOfOrder, response, error>>

\* renderPDFToImages: getDocument, then "Determine which pages to render"
LoadDocument ==
    /\ pc = "load"
    /\ pagesToRender' = PagesToRender(Len(doc), options)
    /\ batchStart' = 0
    /\ images' = <<>>
    /\ pc' = "batch"
    /\ UNCHANGED <<envVars, timerArmed, doc, input, analysis, chosenPages, actualMode, options, inFlight,
                   batchImages, completedOutOfOrder, response, error>>

LoadFails ==
    /\ pc = "load"
    /\ Fail("load")
    /\ UNCHANGED timerArmed

\* One turn of the batch loop: batch.map(renderPageToImage) starts every
\* page of the batch.
StartBatch ==
    /\ pc = "batch"
    /\ batchStart < Len(pagesToRender)
    /\ LET batch == Batch(pagesToRender, batchStart)
       IN  /\ inFlight' = 1..Len(batch)
           /\ batchImages' = [j \in 1..Len(batch) |-> Pending]
    /\ pc' = "await"
    /\ UNCHANGED <<envVars, timerArmed, doc, input, analysis, chosenPages, actualMode, options, pagesToRender,
                   batchStart, images, completedOutOfOrder, response, error>>

\* renderPageToImage of the j-th page of the batch resolves; getPage resolves
\* only for a page of the document.
CompletePage(j) ==
    /\ pc = "await"
    /\ j \in inFlight
    /\ pagesToRender[batchStart + j] \in 1..Len(doc)
    /\ batchImages' = StoreResult(batchImages, j, PageImage(pagesToRender[batchStart + j]))
    /\ inFlight' = inFlight \ {j}
    /\ completedOutOfOrder' = (completedOutOfOrder \/ \E l \in inFlight : l < j)
    /\ UNCHANGED <<envVars, timerArmed, doc, input, analysis, chosenPages, actualMode, options, pagesToRender,
                   batchStart, images, response, error, pc>>

\* renderPageToImage of the j-th page of the batch rejects: Promise.all
\* rejects and renderPDFToImages throws.
FailPage(j) ==
    /\ pc = "await"
    /\ j \in inFlight
    /\ Fail("render")
    /\ UNCHANGED timerArmed

\* A variant of AwaitBatch that goes on as soon as one page of the batch has
\* completed (Promise.race in place of Promise.all).
AwaitBatchOnFirst ==
    /\ pc = "await"
    /\ inFlight # 1..Len(batchImages)
    /\ images' = images \o batchImages
    /\ batchImages' = <<>>
    /\ batchStart' = batchStart + batchSize
    /\ pc' = "batch"
    /\ UNCHANGED <<envVars, timerArmed, doc, input, analysis, chosenPages, actualMode, options,
                   pagesToRender, inFlight, completedOutOfOrder, response, error>>

\* Promise.all resolves once every page of the batch has: images.push(...batchImages)
AwaitBatch ==
    /\ pc = "await"
    /\ inFlight = {}
    /\ images' = images \o batchImages
    /\ batchImages' = <<>>
    /\ batchStart' = batchStart + batchSize
    /\ pc' = "batch"
    /\ UNCHANGED <<envVars, timerArmed, doc, input, analysis, chosenPages, actualMode, options, pagesToRender,
                   inFlight, completedOutOfOrder, response, error>>

\* The batch loop ends: return images
ReturnImages ==
    /\ pc = "batch"
    /\ batchStart >= Len(pagesToRender)
    /\ pc' = "format"
    /\ UNCHANGED <<envVars, timerArmed, doc, input, analysis, chosenPages, renderVars>>

\* The rest of handleImagesMode / handleHybridMode: format the report
FormatResponse ==
    /\ pc = "format"
    /\ response' = IF actualMode = "images" THEN ImagesResponse(images)
                   ELSE HybridResponse(Len(doc), images)
    /\ pc' = "done"
    /\ UNCHANGED <<envVars, timerArmed, doc, input, analysis, chosenPages, actualMode, options, pagesToRender,
                   batchStart, inFlight, batchImages, images, completedOutOfOrder, error>>

Next ==
    \/ InvalidURL
    \/ StartFetch
    \/ FetchPDF
    \/ FetchFails
    \/ TimerFires
    \/ ResolveMode
    \/ AnalyzeFails
    \/ HandleTextMode
    \/ ExtractFails
    \/ HybridAnalyzeFails
    \/ HandleImagesMode
    \/ HandleHybridMode
    \/ LoadDocument
    \/ LoadFails
    \/ StartBatch
    \/ \E j \in 1..batchSize : CompletePage(j)
    \/ \E j \in 1..batchSize : FailPage(j)
    \/ AwaitBatch
    \/ ReturnImages
    \/ FormatResponse

Spec == Init /\ [][Next]_vars

----------------------------------------------------------------------------
(* Claims about the request handler and the renderer, checked under Spec.  *)

\* The page numbers of a list of page images.
PageNumbersOf(imgs) == [k \in 1..Len(imgs) |-> imgs[k].pageNumber]

\* C6: in hybrid mode, requested or reached through auto, without an explicit
\* page list, at most min(10, maxPages) pages are chosen, rendered and
\* reported, for every document and maxPages.
C6_HybridCap ==
    (actualMode = "hybrid" /\ ~input.pages.given) =>
        LET cap == IF input.maxPages < 10 THEN input.maxPages ELSE 10
        IN  /\ Len(chosenPages) <= cap
            /\ Len(pagesToRender) <= cap
            /\ Len(images) <= cap
            /\ pc = "done" => response.renderedPages[1] <= cap

\* A hybrid request with maxPages = 50 on a document with more than 10 visual
\* pages that has completed with rendered pages.
C6_Witness ==
    /\ pc = "done"
    /\ actualMode = "hybrid"
    /\ ~input.pages.given
    /\ input.maxPages = 50
    /\ Len(analysis.visualPageNumbers) > 10
    /\ Len(images) > 1
    /\ response.renderedPages = <<Len(images)>>

\* C7: in every mode, with or without an explicit page list, the number of
\* rendered page images never exceeds the request's maxPages.
C7_MaxPagesBound ==
    /\ Len(images) <= input.maxPages
    /\ pc = "done" => Len(response.sections) <= input.maxPages

\* The case of C8: images mode with a non-empty explicit list all of whose
\* entries exceed the page count.
C8_Case ==
    /\ actualMode = "images"
    /\ input.pages.given
    /\ Len(input.pages.list) > 0
    /\ \A k \in 1..Len(input.pages.list) : input.pages.list[k] > Len(doc)

\* C8: in that case no page render is started and none fails, and the request
\* completes with zero rendered pages and a report that holds the Images Mode
\* header and the line "Rendered Pages: 0".
C8_OutOfRangeOnly ==
    C8_Case =>
        /\ error # "render"
        /\ pc # "await"
        /\ images = <<>>
        /\ pc \in {"batch", "format", "done"} => pagesToRender = <<>>
        /\ pc = "done" => /\ response.header = "Images Mode"
                          /\ response.renderedPages = <<0>>
                          /\ response.sections = <<>>

\* pages = [999] on a 5-page document, completed.
C8_Witness ==
    /\ C8_Case
    /\ pc = "done"
    /\ Len(doc) = 5
    /\ input.pages.list = <<OutOfRangePage>>
    /\ response.renderedPages = <<0>>

\* The reference of C9, in one pass over the explicit list: an entry outside
\* [1, pageCount] is dropped without using up the budget, an entry inside is
\* kept while the budget lasts.
RECURSIVE RefKeep(_, _, _)
RefKeep(list, pageCount, budget) ==
    IF list = <<>> \/ budget = 0 THEN <<>>
    ELSE IF list[1] \in 1..pageCount
         THEN <<list[1]>> \o RefKeep(Tail(list), pageCount, budget - 1)
         ELSE RefKeep(Tail(list), pageCount, budget)

RefImagesPages(pageCount, request) ==
    IF request.pages.given /\ request.pages.list # <<>>
    THEN RefKeep(request.pages.list, pageCount, request.maxPages)
    ELSE [k \in 1..(IF pageCount < request.maxPages THEN pageCount ELSE request.maxPages) |-> k]

\* C9: in images mode the rendered page list is the non-empty explicit list
\* with the entries outside [1, pageCount] removed and then cut to its first
\* maxPages entries, otherwise pages 1..min(pageCount, maxPages).
C9_ImagesPageList ==
    actualMode = "images" =>
        /\ pc \in {"batch", "await", "format", "done"} =>
               pagesToRender = RefImagesPages(Len(doc), input)
        /\ pc \in {"format", "done"} =>
               PageNumbersOf(images) = RefImagesPages(Len(doc), input)
        /\ pc = "done" => response.sections = RefImagesPages(Len(doc), input)

\* pages = [999, 1] with maxPages = 1 renders page 1.
C9_Witness ==
    /\ actualMode = "images"
    /\ pc = "done"
    /\ input.pages.list = <<OutOfRangePage, 1>>
    /\ input.maxPages = 1
    /\ response.sections = <<1>>

\* C10: whatever the order in which the page renders complete, the images
\* returned by renderPDFToImages are those of the resolved page list, in its
\* order; the images pushed after each batch are those of a prefix of it.
C10_RequestedOrder ==
    /\ pc \in {"format", "done"} => PageNumbersOf(images) = pagesToRender
    /\ pc \in {"batch", "await"} =>
           PageNumbersOf(images) = SubSeq(pagesToRender, 1, Len(images))

\* A render of more than one batch in which some page completed before an
\* earlier page of its batch, returned.
C10_Witness ==
    /\ pc = "format"
    /\ completedOutOfOrder
    /\ Len(images) > batchSize
    /\ PageNumbersOf(images) = pagesToRender

\* C11: within one render request at most 5 page renders are in flight, and
\* page renders start only while none of an earlier batch is in flight: every
\* page before the batch has completed and its image has been pushed.
C11_BatchesInOrder ==
    /\ [](/\ Cardinality(inFlight) <= 5
          /\ inFlight # {} =>
                 /\ Len(images) = batchStart
                 /\ \A k \in 1..Len(images) : images[k] # Pending)
    /\ [][(inFlight' \ inFlight # {}) => inFlight = {}]_vars

\* The second batch of a render, with 5 pages in flight.
C11_Witness ==
    /\ pc = "await"
    /\ batchStart = 5
    /\ Cardinality(inFlight) = 5
    /\ Len(images) = 5

\* C12: a request completes its whole mode branch or fails as a whole.  A
\* failure of the fetch, the text extraction, the analysis or one page render
\* raises one error, returns no report and no image, and ends the request: no
\* step is taken after it.  A completed request raised no error and reports
\* every page of its resolved page list.
C12_AllOrNothing ==
    /\ pc = "failed" <=> error # "none"
    /\ pc = "failed" =>
           /\ response = NoResponse
           /\ images = <<>>
           /\ ~ENABLED Next
    /\ pc = "done" =>
           /\ response # NoResponse
           /\ actualMode \in {"images", "hybrid"} => response.sections = pagesToRender
    /\ pc # "done" => response = NoResponse

\* A request for all pages of a document of more than 5 pages that failed in
\* a page render.
C12_Witness ==
    /\ pc = "failed"
    /\ error = "render"
    /\ Len(doc) > batchSize
    /\ input.pages = NoPages
    /\ response = NoResponse

\* C13: the mode dispatched on is always text, images or hybrid.  A request
\* mode other than auto is dispatched as it is; auto is replaced by the
\* analyzer's recommendedMode, which is never auto; so the dispatch
\* always finds one of its three cases and never its 'Unknown mode' default.
C13_DispatchedMode ==
    /\ actualMode \in {"none", "text", "images", "hybrid"}
    /\ pc \in {"fetch", "fetching", "mode"} => actualMode = "none"
    /\ pc \notin {"fetch", "fetching", "mode", "failed"} =>
           /\ actualMode \in {"text", "images", "hybrid"}
           /\ input.mode # "auto" => actualMode = input.mode
           /\ input.mode = "auto" =>
                  /\ actualMode = analysis.recommendedMode
                  /\ analysis.recommendedMode # "auto"

\* An auto request on a document with few visual pages, where the analyzer's
\* default rule decides, about to be dispatched as text.
C13_Witness ==
    /\ pc = "dispatch"
    /\ input.mode = "auto"
    /\ analysis.hasVisuals
    /\ actualMode = "text"

\* C14: for every document, the visualPageNumbers returned by analyzeDocument
\* are page numbers in 1..pageCount, strictly ascending (hence without
\* duplicates), and hasVisuals is true exactly when the list is non-empty.
C14_VisualPageNumbers ==
    pc = "analyzed" =>
        /\ \A k \in 1..Len(analysis.visualPageNumbers) :
               analysis.visualPageNumbers[k] \in 1..Len(doc)
        /\ StrictlyAscending(analysis.visualPageNumbers)
        /\ analysis.hasVisuals <=> analysis.visualPageNumbers # <<>>

\* An analyzed document whose first and last page are visual and which has a
\* page that is not.
C14_Witness ==
    /\ pc = "analyzed"
    /\ Len(analysis.visualPageNumbers) >= 2
    /\ Len(analysis.visualPageNumbers) < Len(doc)
    /\ analysis.visualPageNumbers[1] = 1
    /\ analysis.visualPageNumbers[Len(analysis.visualPageNumbers)] = Len(doc)
    /\ analysis.hasVisuals

\* C18: a non-empty document with no visual page (no page has images and
\* every page has textLength >= textDensityThreshold / 2) is recommended
\* text, whether or not its average text density is above the threshold.
C18_NoVisualsIsText ==
    (/\ pc = "analyzed"
     /\ Len(doc) > 0
     /\ \A p \in 1..Len(doc) : ~IsVisualPage(doc[p], DEFAULT_TEXT_DENSITY)) =>
        /\ analysis.recommendedMode = "text"
        /\ ~analysis.hasVisuals

\* A document without visual pages whose average text density is exactly
\* half the threshold, recommended text by the default rule.
C18_Witness ==
    /\ pc = "analyzed"
    /\ Len(doc) > 1
    /\ \A p \in 1..Len(doc) : ~IsVisualPage(doc[p], DEFAULT_TEXT_DENSITY)
    /\ 2 * SumTextLength(doc) = DEFAULT_TEXT_DENSITY * Len(doc)
    /\ analysis.recommendedMode = "text"

\* C19: selectPagesToRender with maxPages = 1 and more than one visual page,
\* where the step is ceil((count - 1) / 0) = Infinity, returns exactly the
\* one-element list holding the first visual page (the loop body never runs).
C19_SinglePage ==
    (/\ pc = "selected"
     /\ input.maxPages = 1
     /\ Len(analysis.visualPageNumbers) > 1) =>
        /\ CeilDiv(Len(analysis.visualPageNumbers) - 1, input.maxPages - 1) = Infinity
        /\ chosenPages = <<analysis.visualPageNumbers[1]>>

\* A selection with maxPages = 1 from several visual pages of which the
\* first is not page 1.
C19_Witness ==
    /\ pc = "selected"
    /\ input.maxPages = 1
    /\ Len(analysis.visualPageNumbers) > 2
    /\ analysis.visualPageNumbers[1] > 1
    /\ Len(chosenPages) = 1

\* C16: the fetch timeout can only end the fetch phase.  The timer is armed
\* only while fetchPDFFromURL awaits the response and its body; a request that
\* failed with the timeout error never analyzed, selected or rendered
\* anything; the timeout error arises only from a fetch under way, and a
\* render that is loading or in flight fails only with its own errors.
C16_TimeoutEndsFetchOnly ==
    /\ [](/\ timerArmed => pc = "fetching"
          /\ error = "timeout" =>
                 /\ pc = "failed"
                 /\ actualMode = "none"
                 /\ analysis = NoAnalysis
                 /\ chosenPages = <<>>
                 /\ images = <<>>
                 /\ response = NoResponse)
    /\ [][/\ (error' = "timeout" /\ error # "timeout") => (pc = "fetching" /\ timerArmed)
          /\ (pc \in {"load", "batch", "await"} /\ pc' = "failed") => error' \in {"load", "render"}
          /\ (pc \in {"load", "batch", "await"}) => timerArmed' = FALSE]_vars

\* A request that the timer ended during its fetch.
C16_Witness ==
    /\ pc = "failed"
    /\ error = "timeout"
    /\ ~timerArmed
    /\ actualMode = "none"

\* C20: every page handed to the renderer has a number in 1..pageCount, in
\* every mode and for every request.  In hybrid mode without an explicit list
\* on a document with zero pages the page selector answers [1], the renderer
\* filters it to nothing, no page render is started or fails, and the report
\* shows zero rendered pages.
C20_RenderedPagesExist ==
    /\ \A k \in 1..Len(pagesToRender) : pagesToRender[k] \in 1..Len(doc)
    /\ pc = "await" =>
           \A j \in 1..Len(batchImages) :
               Batch(pagesToRender, batchStart)[j] \in 1..Len(doc)
    /\ \A k \in 1..Len(images) : images[k].pageNumber \in 1..Len(doc)
    /\ (/\ actualMode = "hybrid"
        /\ ~input.pages.given
        /\ Len(doc) = 0
        /\ pc \in {"load", "batch", "await", "format", "done", "failed"}) =>
           /\ pc # "await"
           /\ error # "render"
           /\ pc # "failed" => chosenPages = <<1>>
           /\ pagesToRender = <<>>
           /\ images = <<>>
           /\ pc = "done" => (response.renderedPages = <<0>> /\ response.sections = <<>>)

\* A hybrid request without an explicit list on a document with zero pages
\* that completed with zero rendered pages.
C20_Witness ==
    /\ pc = "done"
    /\ actualMode = "hybrid"
    /\ ~input.pages.given
    /\ Len(doc) = 0
    /\ chosenPages = <<1>>
    /\ response.header = "Hybrid Mode"
    /\ response.renderedPages = <<0>>

-----------------------------------------------------------------------------
(* utils/fetcher.ts: fetchPDFFromURL on its own, step by step.  The sizes   *)
(* are byte counts; a buffer is modelled by its length.                     *)

\* const DEFAULT_MAX_SIZE = 50 * 1024 * 1024
DEFAULT_MAX_SIZE == 50 * 1024 * 1024

\* The largest explicit maxSizeBytes option tried.
MaxSizeOption == 2

\* options.maxSizeBytes ?? DEFAULT_MAX_SIZE (the option is <<>> when absent;
\* an option of 0 is kept).
MaxSize(opts) ==
    IF opts.maxSizeBytes = <<>> THEN DEFAULT_MAX_SIZE ELSE opts.maxSizeBytes[1]

\* The Content-Length header: absent (null), a text that parseInt turns into
\* NaN, or a text that parseInt turns into the number n.
NoContentLength == [kind |-> "absent", n |-> 0]
NaNContentLength == [kind |-> "NaN", n |-> 0]
ContentLength(n) == [kind |-> "number", n |-> n]

\* contentLength && parseInt(contentLength) > maxSize: null is falsy and
\* NaN > maxSize is false.
DeclaredTooLarge(contentLength, maxSize) ==
    contentLength.kind = "number" /\ contentLength.n > maxSize

\* A variant of BodyTooLarge that trusts the Content-Length check.
BodyTooLargeUnchecked(byteLength, maxSize) == FALSE

\* arrayBuffer.byteLength > maxSize
BodyTooLarge(byteLength, maxSize) == byteLength > maxSize

\* The byte counts tried around a limit.
SizesAround(maxSize) == {0, maxSize, maxSize + 1, 2 * maxSize + 2} \cup {n \in {maxSize - 1} : n >= 0}

FetchRequests ==
    [urlValid : BOOLEAN,
     maxSizeBytes : {<<>>} \cup {<<n>> : n \in 0..MaxSizeOption}]

InitFetch ==
    /\ doc = <<>>
    /\ input = NoInput
    /\ analysis = NoAnalysis
    /\ chosenPages = <<>>
    /\ RenderIdle
    /\ fetchOptions \in FetchRequests
    /\ httpResponse = NoHttpResponse
    /\ pdfBuffer = <<>>
    /\ toolCall = NoToolCall
    /\ timerArmed = FALSE
    /\ pc = "validate"

\* A throw inside the try block: the catch rethrows and finally clears the timer.
ThrowInFetch(message) ==
    /\ pc' = "failed"
    /\ error' = message
    /\ timerArmed' = ClearTimeout(timerArmed)

\* "Validate URL": the throw of the first try/catch
FetchRejectsURL ==
    /\ pc = "validate"
    /\ ~fetchOptions.urlValid
    /\ pc' = "failed"
    /\ error' = "url"
    /\ UNCHANGED <<envVars, timerArmed, doc, input, analysis, chosenPages, actualMode, options, pagesToRender,
                   batchStart, inFlight, batchImages, images, completedOutOfOrder, response>>

\* setTimeout(() => controller.abort(), timeout); fetch(url, {signal, headers})
SendRequest ==
    /\ pc = "validate"
    /\ fetchOptions.urlValid
    /\ timerArmed' = TRUE
    /\ pc' = "request"
    /\ UNCHANGED <<envVars, doc, input, analysis, chosenPages, renderVars>>

\* await fetch resolves with the response: the status check, then the
\* Content-Length check.
ReceiveResponse ==
    /\ pc = "request"
    /\ \E ok \in BOOLEAN :
       \E contentLength \in {NoContentLength, NaNContentLength}
                                \cup {ContentLength(n) : n \in SizesAround(MaxSize(fetchOptions))} :
           /\ httpResponse' = [ok |-> ok, contentLength |-> contentLength, byteLength |-> <<>>]
           /\ IF ~ok THEN ThrowInFetch("http")
              ELSE IF DeclaredTooLarge(contentLength, MaxSize(fetchOptions)) THEN ThrowInFetch("size")
              ELSE /\ pc' = "body"
                   /\ UNCHANGED <<timerArmed, error>>
    /\ UNCHANGED <<fetchOptions, pdfBuffer, toolCall, doc, input, analysis, chosenPages, actualMode, options,
                   pagesToRender, batchStart, inFlight, batchImages, images, completedOutOfOrder, response>>

\* await response.arrayBuffer() resolves: the size check, then the return.
ReadBody ==
    /\ pc = "body"
    /\ \E byteLength \in SizesAround(MaxSize(fetchOptions)) :
           /\ httpResponse' = [httpResponse EXCEPT !.byteLength = <<byteLength>>]
           /\ IF BodyTooLarge(byteLength, MaxSize(fetchOptions))
              THEN /\ ThrowInFetch("size")
                   /\ UNCHANGED pdfBuffer
              ELSE /\ pdfBuffer' = <<byteLength>>
                   /\ pc' = "returned"
                   /\ timerArmed' = ClearTimeout(timerArmed)
                   /\ UNCHANGED error
    /\ UNCHANGED <<fetchOptions, toolCall, doc, input, analysis, chosenPages, actualMode, options,
                   pagesToRender, batchStart, inFlight, batchImages, images, completedOutOfOrder, response>>

\* fetch or arrayBuffer rejects: the network failed
NetworkFails ==
    /\ pc \in {"request", "body"}
    /\ ThrowInFetch("network")
    /\ UNCHANGED <<envVars, doc, input, analysis, chosenPages, actualMode, options, pagesToRender,
                   batchStart, inFlight, batchImages, images, completedOutOfOrder, response>>

\* The timer fires while fetch or arrayBuffer is awaited: AbortError, rethrown
\* as "Request timeout".
AbortFetch ==
    /\ pc \in {"request", "body"}
    /\ timerArmed
    /\ pc' = "failed"
    /\ error' = "timeout"
    /\ timerArmed' = FALSE
    /\ UNCHANGED <<envVars, doc, input, analysis, chosenPages, actualMode, options, pagesToRender,
                   batchStart, inFlight, batchImages, images, completedOutOfOrder, response>>

NextFetch ==
    \/ FetchRejectsURL
    \/ SendRequest
    \/ ReceiveResponse
    \/ ReadBody
    \/ NetworkFails
    \/ AbortFetch

SpecFetch == InitFetch /\ [][NextFetch]_vars

-----------------------------------------------------------------------------
(* index.ts: the call_tool handler, which validates the arguments with      *)
(* FetchAndParsePDFSchema before it runs handleFetchAndParsePDF.  An        *)
(* optional argument is <<>> when absent and <<v>> when given.              *)

\* The longest pages argument tried.
MaxArgPages == 2

\* z.string().url()
ParseUrl(arg) == [ok |-> arg # "not a url", value |-> arg]

\* z.enum(['text', 'images', 'hybrid', 'auto']).default('auto')
ParseMode(arg) ==
    IF arg = <<>> THEN [ok |-> TRUE, value |-> "auto"]
    ELSE [ok |-> arg[1] \in {"text", "images", "hybrid", "auto"}, value |-> arg[1]]

\* A variant of ParseDpi without .max(300).
ParseDpiWithoutMax(arg) ==
    IF arg = <<>> THEN [ok |-> TRUE, value |-> 150]
    ELSE [ok |-> arg[1] >= 72, value |-> arg[1]]

\* z.number().min(72).max(300).default(150)
ParseDpi(arg) ==
    IF arg = <<>> THEN [ok |-> TRUE, value |-> 150]
    ELSE [ok |-> arg[1] >= 72 /\ arg[1] <= 300, value |-> arg[1]]

\* z.number().min(1).max(100).default(50)
ParseMaxPages(arg) ==
    IF arg = <<>> THEN [ok |-> TRUE, value |-> 50]
    ELSE [ok |-> arg[1] >= 1 /\ arg[1] <= 100, value |-> arg[1]]

\* z.array(z.number().min(1)).optional()
ParsePages(arg) ==
    [ok |-> \A k \in 1..Len(arg.list) : arg.list[k] >= 1, value |-> arg]

\* FetchAndParsePDFSchema.parse(args): throws unless every field parses.
SchemaAccepts(args) ==
    /\ ParseUrl(args.url).ok
    /\ ParseMode(args.mode).ok
    /\ ParseDpi(args.dpi).ok
    /\ ParseMaxPages(args.maxPages).ok
    /\ ParsePages(args.pages).ok

ValidatedInput(args) ==
    [mode |-> ParseMode(args.mode).value,
     dpi |-> ParseDpi(args.dpi).value,
     maxPages |-> ParseMaxPages(args.maxPages).value,
     pages |-> ParsePages(args.pages).value]

ToolCalls ==
    [name : {"fetch_and_parse_pdf", "other_tool"},
     url : {"http://host/a.pdf", "not a url"},
     mode : {<<>>, <<"hybrid">>, <<"ocr">>},
     dpi : {<<>>, <<71>>, <<72>>, <<300>>, <<301>>},
     maxPages : {<<>>, <<0>>, <<1>>, <<100>>, <<101>>},
     pages : {NoPages} \cup {Pages(list) : list \in UNION {[1..n -> 0..2] : n \in 0..MaxArgPages}}]

InitCallTool ==
    /\ doc = <<>>
    /\ input = NoInput
    /\ analysis = NoAnalysis
    /\ chosenPages = <<>>
    /\ RenderIdle
    /\ fetchOptions = NoFetchOptions
    /\ httpResponse = NoHttpResponse
    /\ pdfBuffer = <<>>
    /\ toolCall \in ToolCalls
    /\ timerArmed = FALSE
    /\ pc = "call_tool"

\* name === 'fetch_and_parse_pdf', the arguments parse:
\* handleFetchAndParsePDF(validatedInput) is called.
CallHandler ==
    /\ pc = "call_tool"
    /\ toolCall.name = "fetch_and_parse_pdf"
    /\ SchemaAccepts(toolCall)
    /\ input' = ValidatedInput(toolCall)
    /\ pc' = "fetch"
    /\ UNCHANGED <<envVars, timerArmed, doc, analysis, chosenPages, renderVars>>

\* FetchAndParsePDFSchema.parse throws; the catch wraps the ZodError into
\* McpError(InternalError, 'Tool execution failed: ...').
RejectArguments ==
    /\ pc = "call_tool"
    /\ toolCall.name = "fetch_and_parse_pdf"
    /\ ~SchemaAccepts(toolCall)
    /\ pc' = "failed"
    /\ error' = "InternalError"
    /\ UNCHANGED <<envVars, timerArmed, doc, input, analysis, chosenPages, actualMode, options, pagesToRender,
                   batchStart, inFlight, batchImages, images, completedOutOfOrder, response>>

\* throw new McpError(ErrorCode.MethodNotFound, `Unknown tool: ${name}`)
UnknownTool ==
    /\ pc = "call_tool"
    /\ toolCall.name # "fetch_and_parse_pdf"
    /\ pc' = "failed"
    /\ error' = "MethodNotFound"
    /\ UNCHANGED <<envVars, timerArmed, doc, input, analysis, chosenPages, actualMode, options, pagesToRender,
                   batchStart, inFlight, batchImages, images, completedOutOfOrder, response>>

NextCallTool ==
    \/ CallHandler
    \/ RejectArguments
    \/ UnknownTool

SpecCallTool == InitCallTool /\ [][NextCallTool]_vars

\* The call's dpi, maxPages or pages argument is out of bounds: a dpi outside
\* [72, 300], a maxPages outside [1, 100], or a page number below 1.
OutOfBounds(args) ==
    \/ args.dpi # <<>> /\ (args.dpi[1] < 72 \/ args.dpi[1] > 300)
    \/ args.maxPages # <<>> /\ (args.maxPages[1] < 1 \/ args.maxPages[1] > 100)
    \/ \E k \in 1..Len(args.pages.list) : args.pages.list[k] < 1

\* C17: a call_tool request for fetch_and_parse_pdf whose dpi is outside
\* [72, 300], whose maxPages is outside [1, 100] or whose pages list holds a
\* number below 1 is rejected with an error and handleFetchAndParsePDF is not
\* run for it; the input the handler does run on has its dpi in [72, 300],
\* its maxPages in [1, 100] and every listed page >= 1.
C17_BoundsEnforced ==
    /\ pc = "fetch" =>
           /\ toolCall.name = "fetch_and_parse_pdf"
           /\ ~OutOfBounds(toolCall)
           /\ input.dpi >= 72 /\ input.dpi <= 300
           /\ input.maxPages >= 1 /\ input.maxPages <= 100
           /\ \A k \in 1..Len(input.pages.list) : input.pages.list[k] >= 1
           /\ toolCall.dpi # <<>> => input.dpi = toolCall.dpi[1]
           /\ toolCall.maxPages # <<>> => input.maxPages = toolCall.maxPages[1]
           /\ input.pages = toolCall.pages
    /\ (pc # "call_tool" /\ toolCall.name = "fetch_and_parse_pdf" /\ OutOfBounds(toolCall)) =>
           /\ pc = "failed"
           /\ error = "InternalError"
           /\ input = NoInput
    /\ pc = "failed" => input = NoInput

\* A call whose only fault is a dpi of 301, rejected.
C17_Witness ==
    /\ pc = "failed"
    /\ error = "InternalError"
    /\ toolCall.name = "fetch_and_parse_pdf"
    /\ toolCall.url = "http://host/a.pdf"
    /\ toolCall.mode = <<"hybrid">>
    /\ toolCall.dpi = <<301>>
    /\ toolCall.maxPages = <<100>>
    /\ toolCall.pages = Pages(<<1, 2>>)

-----------------------------------------------------------------------------
(* The empty explicit pages list, checked under Spec.                       *)

\* C21: an explicitly given empty pages list is handled differently by the
\* two rendering modes.  In hybrid mode it counts as provided: the page
\* selector's answer (never empty) is not used, the renderer is not called and
\* the report shows zero rendered pages.  In images mode it counts as absent:
\* the pages rendered are 1..min(pageCount, maxPages).
C21_EmptyPagesList ==
    input.pages = Pages(<<>>) =>
        /\ actualMode = "hybrid" =>
               /\ pc \notin {"load", "batch", "await"}
               /\ chosenPages = <<>>
               /\ pagesToRender = <<>>
               /\ images = <<>>
               /\ pc \in {"format", "done"} =>
                      selectPagesToRender(analysis, HybridPageCap(input.maxPages)) # <<>>
               /\ pc = "done" =>
                      (response.renderedPages = <<0>> /\ response.sections = <<>>)
        /\ actualMode = "images" =>
               /\ pc \in {"batch", "await", "format", "done"} =>
                      pagesToRender = [k \in 1..Min(Len(doc), input.maxPages) |-> k]
               /\ pc = "done" =>
                      response.sections = [k \in 1..Min(Len(doc), input.maxPages) |-> k]

\* An images request with an empty pages list on a document of more pages
\* than maxPages, completed with pages 1..maxPages rendered.
C21_Witness ==
    /\ pc = "done"
    /\ actualMode = "images"
    /\ input.pages = Pages(<<>>)
    /\ input.maxPages = 2
    /\ Len(doc) > 2
    /\ response.sections = <<1, 2>>

====
